---- MODULE Spec2Model ----
(***************************************************************************)
(* A model of prompt_generator.py: the prompt template, the JSON save/load *)
(* of a prompt, the model gateway adapter and the console menu loop.       *)
(*                                                                         *)
(* Text is a sequence of one-character strings, so that trimming,          *)
(* lower-casing, JSON escaping and JSON parsing are computed, not assumed. *)
(***************************************************************************)
EXTENDS Integers, Sequences, FiniteSets, TLC

VARIABLES
    files,       \* the file system: filename -> what is at that path
    call,        \* SpecAPI: the last library call, its arguments and result
    meta,        \* SpecAPI: per filename, how its content came about (history)
    pc,          \* Spec: where the process is
    args,        \* Spec: the parsed command line
    generator,   \* Spec: main's generator handle
    prompt,      \* Spec: main_menu's prompt of the current turn
    after,       \* Spec: where control goes after generate_and_display_responses
    turn,        \* Spec: what happened since the last menu input, in order
    choice       \* Spec: the last raw input read at the menu

vars == <<files, call, meta, pc, args, generator, prompt, after, turn, choice>>

apiVars == <<call, meta>>
shellVars == <<pc, args, generator, prompt, after, turn, choice>>

----------------------------------------------------------------------------
(* Bounds *)

\* The most continuations one model call returns, in the model.
MaxResponses == 2

----------------------------------------------------------------------------
(* Text *)

Whitespace == {" ", "\t", "\n"}

RECURSIVE lstrip(_)
lstrip(s) ==
    IF s # <<>> /\ Head(s) \in Whitespace THEN lstrip(Tail(s)) ELSE s

RECURSIVE rstrip(_)
rstrip(s) ==
    IF s # <<>> /\ s[Len(s)] \in Whitespace
    THEN rstrip(SubSeq(s, 1, Len(s) - 1))
    ELSE s

\* str.strip()
strip(s) == rstrip(lstrip(s))

LowerChar(c) ==
    CASE c = "Y" -> "y"
      [] c = "E" -> "e"
      [] c = "S" -> "s"
      [] c = "N" -> "n"
      [] c = "O" -> "o"
      [] OTHER -> c

\* str.lower(), on the letters the inputs of the model use
lower(s) == [i \in DOMAIN s |-> LowerChar(s[i])]

\* x or default, for strings
OrDefault(s, d) == IF s = <<>> THEN d ELSE s

DefaultFilename == <<"p","r","o","m","p","t",".","j","s","o","n">>
OtherFilename == <<"o",".","j","s","o","n">>
Yes == <<"y","e","s">>

----------------------------------------------------------------------------
(* generate_prompt *)

AnswerKeys == {"purpose", "target_audience", "tone", "length", "specific_details"}

LitWriteA == <<"W","r","i","t","e"," ","a"," ">>
LitResponseFor == <<" ","r","e","s","p","o","n","s","e"," ","f","o","r"," ">>
LitAbout == <<" ","a","b","o","u","t"," ">>
LitTone ==
    <<"."," ","T","h","e"," ","t","o","n","e"," ","s","h","o","u","l","d"," ","b","e"," ">>
LitDetails ==
    <<"."," ","A","d","d","i","t","i","o","n","a","l"," ","d","e","t","a","i","l","s",":"," ">>
LitDot == <<".">>

generate_prompt_swapped(user_input) ==
    LitWriteA \o user_input["length"] \o LitResponseFor
        \o user_input["purpose"] \o LitAbout \o user_input["target_audience"]
        \o LitTone \o user_input["tone"]
        \o LitDetails \o user_input["specific_details"] \o LitDot

generate_prompt(user_input) ==
    LitWriteA \o user_input["length"] \o LitResponseFor
        \o user_input["target_audience"] \o LitAbout \o user_input["purpose"]
        \o LitTone \o user_input["tone"]
        \o LitDetails \o user_input["specific_details"] \o LitDot

----------------------------------------------------------------------------
(* Python values, as far as json and load_prompt need them *)

PyVal(t, s, m) == [t |-> t, s |-> s, m |-> m]
None == PyVal("null", <<>>, <<>>)
PyStr(s) == PyVal("str", s, <<>>)
PyInt(digits) == PyVal("int", digits, <<>>)
PyBool(b) == PyVal(IF b THEN "true" ELSE "false", <<>>, <<>>)
PyDict(members) == PyVal("dict", <<>>, members)
PyList(items) == PyVal("list", <<>>, items)

\* bool(v)
Truthy(v) ==
    CASE v.t = "null" -> FALSE
      [] v.t = "false" -> FALSE
      [] v.t = "true" -> TRUE
      [] v.t = "str" -> v.s # <<>>
      [] v.t = "int" -> \E i \in DOMAIN v.s : v.s[i] # "0"
      [] v.t = "pipeline" -> TRUE
      [] OTHER -> v.m # <<>>

\* dict.get(key, default): the last member with that key wins, as json builds it
RECURSIVE DictGet(_, _, _)
DictGet(members, key, default) ==
    IF members = <<>> THEN default
    ELSE LET last == members[Len(members)]
         IN  IF last[1] = key THEN last[2]
             ELSE DictGet(SubSeq(members, 1, Len(members) - 1), key, default)

KeyPrompt == <<"p","r","o","m","p","t">>

----------------------------------------------------------------------------
(* json.dump({"prompt": prompt}, f, ensure_ascii=False, indent=4) *)

EscapeCharNoBackslash(c) ==
    CASE c = "\"" -> <<"\\", "\"">>
      [] c = "\n" -> <<"\\", "n">>
      [] c = "\t" -> <<"\\", "t">>
      [] OTHER -> <<c>>

EscapeChar(c) ==
    CASE c = "\"" -> <<"\\", "\"">>
      [] c = "\\" -> <<"\\", "\\">>
      [] c = "\n" -> <<"\\", "n">>
      [] c = "\t" -> <<"\\", "t">>
      [] OTHER -> <<c>>

\* the escapes of s[lo..hi], one after the other (by halves)
RECURSIVE EscapeRange(_, _, _)
EscapeRange(s, lo, hi) ==
    IF lo > hi THEN <<>>
    ELSE IF lo = hi THEN EscapeChar(s[lo])
    ELSE LET mid == (lo + hi) \div 2
         IN  EscapeRange(s, lo, mid) \o EscapeRange(s, mid + 1, hi)

EscapeAll(s) == EscapeRange(s, 1, Len(s))

Quoted(s) == <<"\"">> \o EscapeAll(s) \o <<"\"">>

Indent == <<" ", " ", " ", " ">>

json_dump_prompt(p) ==
    <<"{", "\n">> \o Indent \o Quoted(KeyPrompt) \o <<":", " ">> \o Quoted(p)
        \o <<"\n", "}">>

----------------------------------------------------------------------------
(* json.load: objects, arrays, strings, null, true, false and unsigned      *)
(* integers; a parse result is [ok, v, i] with i the index after the value *)

JsonWs == {" ", "\t", "\n"}
Digits == {"0", "1", "2", "3", "4", "5", "6", "7", "8", "9"}
ControlChars == {"\n", "\t"}

ParseFail == [ok |-> FALSE, v |-> None, i |-> 0]
ParseOk(v, i) == [ok |-> TRUE, v |-> v, i |-> i]

RECURSIVE SkipWs(_, _)
SkipWs(t, i) == IF i <= Len(t) /\ t[i] \in JsonWs THEN SkipWs(t, i + 1) ELSE i

At(t, i) == IF i <= Len(t) THEN t[i] ELSE "EOF"

Unescape(c) ==
    CASE c = "n" -> "\n"
      [] c = "t" -> "\t"
      [] OTHER -> c

\* In a string that opens before index i: is t[k] the character of an
\* escape, that is, preceded by an odd run of backslashes?
Escaped(t, i, k) ==
    /\ k > i
    /\ t[k - 1] = "\\"
    /\ LET others == {j \in i..(k - 1) : t[j] # "\\"}
           last == IF others = {} THEN i - 1
                   ELSE CHOOSE j \in others : \A x \in others : x <= j
       IN  (k - 1 - last) % 2 = 1

\* what t[k] of a string's inside stands for
Decoded(t, i, k) ==
    IF Escaped(t, i, k) THEN <<Unescape(t[k])>>
    ELSE IF t[k] = "\\" THEN <<>>
    ELSE <<t[k]>>

\* strict mode refuses raw control characters, and escapes it does not know
WellFormedAt(t, i, k) ==
    IF Escaped(t, i, k) THEN t[k] \in {"\"", "\\", "/", "n", "t"}
    ELSE t[k] \notin ControlChars

RECURSIVE DecodeRange(_, _, _, _)
DecodeRange(t, i, lo, hi) ==
    IF lo > hi THEN <<>>
    ELSE IF lo = hi THEN Decoded(t, i, lo)
    ELSE LET mid == (lo + hi) \div 2
         IN  DecodeRange(t, i, lo, mid) \o DecodeRange(t, i, mid + 1, hi)

\* the quotes that may close a string whose inside starts at i
Terminators(t, i) == {k \in i..Len(t) : t[k] = "\"" /\ ~Escaped(t, i, k)}

MinOf(S) == CHOOSE k \in S : \A x \in S : k <= x

\* the string's inside is t[i..end-1]; end past the text: unterminated
ScanString(t, i, end) ==
    IF end > Len(t) THEN ParseFail
    ELSE IF \A k \in i..(end - 1) : WellFormedAt(t, i, k)
    THEN ParseOk(PyStr(DecodeRange(t, i, i, end - 1)), end + 1)
    ELSE ParseFail

\* py_scanstring; i is the index after the opening quote
ParseString(t, i) == ScanString(t, i, MinOf(Terminators(t, i) \cup {Len(t) + 1}))

RECURSIVE ParseDigits(_, _, _)
ParseDigits(t, i, acc) ==
    IF At(t, i) \in Digits THEN ParseDigits(t, i + 1, Append(acc, t[i]))
    ELSE ParseOk(PyInt(acc), i)

HasWord(t, i, w) == i + Len(w) - 1 <= Len(t) /\ SubSeq(t, i, i + Len(w) - 1) = w

RECURSIVE ParseValue(_, _)
RECURSIVE ParseMembers(_, _, _)
RECURSIVE ParseItems(_, _, _)

\* after a member: e is at "}" (the object ends) or at "," (one more)
MemberEnd(t, e, m) ==
    IF At(t, e) = "}" THEN ParseOk(PyDict(m), e + 1)
    ELSE IF At(t, e) = "," THEN ParseMembers(t, SkipWs(t, e + 1), m)
    ELSE ParseFail

\* v is the parse of the value of the member named key
MemberValue(t, key, v, acc) ==
    IF ~v.ok THEN ParseFail
    ELSE MemberEnd(t, SkipWs(t, v.i), Append(acc, <<key, v.v>>))

\* c is the index after the key and the whitespace behind it
MemberColon(t, key, c, acc) ==
    IF At(t, c) # ":" THEN ParseFail
    ELSE MemberValue(t, key, ParseValue(t, SkipWs(t, c + 1)), acc)

\* k is the parse of the key
MemberKey(t, k, acc) ==
    IF ~k.ok THEN ParseFail ELSE MemberColon(t, k.v.s, SkipWs(t, k.i), acc)

\* JSONObject's loop; i is at the quote that opens a key
ParseMembers(t, i, acc) ==
    IF At(t, i) # "\"" THEN ParseFail
    ELSE MemberKey(t, ParseString(t, i + 1), acc)

\* after an item: e is at "]" (the array ends) or at "," (one more)
ItemEnd(t, e, m) ==
    IF At(t, e) = "]" THEN ParseOk(PyList(m), e + 1)
    ELSE IF At(t, e) = "," THEN ParseItems(t, SkipWs(t, e + 1), m)
    ELSE ParseFail

\* v is the parse of the item
ItemValue(t, v, acc) ==
    IF ~v.ok THEN ParseFail
    ELSE ItemEnd(t, SkipWs(t, v.i), Append(acc, v.v))

\* JSONArray's loop; i is at the start of an item
ParseItems(t, i, acc) == ItemValue(t, ParseValue(t, i), acc)

ParseValue(t, i) ==
    LET c == At(t, i)
    IN  IF c = "\"" THEN ParseString(t, i + 1)
        ELSE IF c = "{"
             THEN LET j == SkipWs(t, i + 1)
                  IN  IF At(t, j) = "}" THEN ParseOk(PyDict(<<>>), j + 1)
                                        ELSE ParseMembers(t, j, <<>>)
        ELSE IF c = "["
             THEN LET j == SkipWs(t, i + 1)
                  IN  IF At(t, j) = "]" THEN ParseOk(PyList(<<>>), j + 1)
                                        ELSE ParseItems(t, j, <<>>)
        ELSE IF HasWord(t, i, <<"n","u","l","l">>) THEN ParseOk(None, i + 4)
        ELSE IF HasWord(t, i, <<"t","r","u","e">>) THEN ParseOk(PyBool(TRUE), i + 4)
        ELSE IF HasWord(t, i, <<"f","a","l","s","e">>) THEN ParseOk(PyBool(FALSE), i + 5)
        ELSE IF c = "0" THEN ParseOk(PyInt(<<"0">>), i + 1)
        ELSE IF c \in Digits THEN ParseDigits(t, i, <<>>)
        ELSE ParseFail

\* r is the parse of the first value: nothing but whitespace may follow it
WholeText(t, r) == IF r.ok /\ SkipWs(t, r.i) = Len(t) + 1 THEN r ELSE ParseFail

\* json.loads: one value, whitespace around it, nothing after it
json_loads(t) == WholeText(t, ParseValue(t, SkipWs(t, 1)))

----------------------------------------------------------------------------
(* The file system *)

Filenames == {DefaultFilename, OtherFilename}

Absent == [kind |-> "absent", text |-> <<>>]
IsDir == [kind |-> "dir", text |-> <<>>]
File(text) == [kind |-> "file", text |-> text]

\* Exception classes the calls of the model raise; all derive from Exception
ExceptionClasses ==
    {"IsADirectoryError", "PermissionError", "OSError", "JSONDecodeError",
     "AttributeError", "RuntimeError"}

\* a handler that catches nothing
HandlesNothing(exc) == FALSE

\* "except Exception"
ExceptException(exc) == exc \in ExceptionClasses

LogRec(level, what) == [level |-> level, what |-> what]

\* How the operating system lets the write go: the open may fail (the file
\* stays as it was), or the write may stop with nothing or half written.
SaveIO == {"all", "open_fails", "none_written", "half_written"}

Written(doc, io) ==
    CASE io = "all" -> doc
      [] io = "half_written" -> SubSeq(doc, 1, Len(doc) \div 2)
      [] OTHER -> <<>>

\* the try block of save_prompt, doc being what json.dump writes: [fs, exc]
SaveBody(fs, doc, filename, io) ==
    IF fs[filename].kind = "dir" THEN [fs |-> fs, exc |-> "IsADirectoryError"]
    ELSE IF io = "open_fails" THEN [fs |-> fs, exc |-> "PermissionError"]
    ELSE IF io # "all"
         THEN [fs |-> [fs EXCEPT ![filename] = File(Written(doc, io))],
               exc |-> "OSError"]
    ELSE [fs |-> [fs EXCEPT ![filename] = File(doc)], exc |-> "none"]

\* save_prompt from the serialised text on: [fs, ret, log, raised]
save_doc(fs, doc, filename, io) ==
    LET b == SaveBody(fs, doc, filename, io)
    IN  IF b.exc = "none"
        THEN [fs |-> b.fs, ret |-> None, log |-> <<LogRec("INFO", "saved")>>,
              raised |-> "none"]
        ELSE IF ExceptException(b.exc)
        THEN [fs |-> b.fs, ret |-> None, log |-> <<LogRec("ERROR", "save")>>,
              raised |-> "none"]
        ELSE [fs |-> b.fs, ret |-> None, log |-> <<>>, raised |-> b.exc]

\* save_prompt
save_prompt(fs, p, filename, io) == save_doc(fs, json_dump_prompt(p), filename, io)

\* data.get("prompt", default) on what json.load returned: [v, exc]
GetPrompt(data, default) ==
    IF ~data.ok THEN [v |-> None, exc |-> "JSONDecodeError"]
    ELSE IF data.v.t # "dict" THEN [v |-> None, exc |-> "AttributeError"]
    ELSE [v |-> DictGet(data.v.m, KeyPrompt, default), exc |-> "none"]

\* data.get("prompt", None) misread as data.get("prompt", "")
LoadBodyGetOrEmpty(fs, filename) ==
    IF fs[filename].kind = "dir" THEN [v |-> None, exc |-> "IsADirectoryError"]
    ELSE GetPrompt(json_loads(fs[filename].text), PyStr(<<>>))

\* the try block of load_prompt: [v, exc]
LoadBody(fs, filename) ==
    IF fs[filename].kind = "dir" THEN [v |-> None, exc |-> "IsADirectoryError"]
    ELSE GetPrompt(json_loads(fs[filename].text), None)

\* the try block's outcome b seen from the caller: [ret, log, raised]
LoadOutcome(b) ==
    IF b.exc = "none" THEN [ret |-> b.v, log |-> <<>>, raised |-> "none"]
    ELSE IF ExceptException(b.exc)
    THEN [ret |-> None, log |-> <<LogRec("ERROR", "load")>>, raised |-> "none"]
    ELSE [ret |-> None, log |-> <<>>, raised |-> b.exc]

\* load_prompt: [ret, log, raised]
load_prompt(fs, filename) ==
    IF fs[filename].kind = "absent"
    THEN [ret |-> None, log |-> <<LogRec("ERROR", "missing")>>, raised |-> "none"]
    ELSE LoadOutcome(LoadBody(fs, filename))

----------------------------------------------------------------------------
(* What a path may hold that this program did not write, each with what it *)
(* is: cls is "invalid" (not JSON), "nonobject" (JSON, no object), "nokey"  *)
(* (an object without prompt) or "value" (an object with stored under      *)
(* prompt).                                                                *)

Fixture(text, cls, stored) == [text |-> text, cls |-> cls, stored |-> stored]

TxtEmpty == <<>>
TxtBroken == <<"{", "\"", "p">>
TxtArray == <<"[", "1", ",", " ", "\"", "a", "\"", "]">>
TxtNoKey == <<"{", "\"", "x", "\"", ":", " ", "1", "}">>
TxtNull ==
    <<"{", "\"">> \o KeyPrompt \o <<"\"", ":", " ", "n", "u", "l", "l", "}">>
TxtFive == <<"{", "\"">> \o KeyPrompt \o <<"\"", ":", "5", "}">>
TxtEmptyPrompt == <<"{", "\"">> \o KeyPrompt \o <<"\"", ":", "\"", "\"", "}", "\n">>
TxtTwice ==
    <<"{", "\"">> \o KeyPrompt \o <<"\"", ":", "\"", "a", "\"", ",", " ", "\"">>
        \o KeyPrompt \o <<"\"", ":", "\"", "b", "/", "\\", "\\", "\"", "}">>
TxtRawNewline ==
    <<"{", "\"">> \o KeyPrompt \o <<"\"", ":", "\"", "a", "\n", "\"", "}">>

Fixtures ==
    {Fixture(TxtEmpty, "invalid", None),
     Fixture(TxtBroken, "invalid", None),
     Fixture(TxtRawNewline, "invalid", None),
     Fixture(TxtArray, "nonobject", None),
     Fixture(TxtNoKey, "nokey", None),
     Fixture(TxtNull, "value", None),
     Fixture(TxtFive, "value", PyInt(<<"5">>)),
     Fixture(TxtEmptyPrompt, "value", PyStr(<<>>)),
     Fixture(TxtTwice, "value", PyStr(<<"b", "/", "\\">>))}

\* History of a path: what is there (cls as above, or "absent", "dir"), the
\* value stored under prompt, whether a save of this program put it there,
\* and whether that save replaced another prompt.
Meta(cls, stored, saved, replaced) ==
    [cls |-> cls, stored |-> stored, saved |-> saved, replaced |-> replaced]

----------------------------------------------------------------------------
(* SpecAPI: the functions called directly, on any arguments *)

SampleAnswers ==
    [purpose |-> <<"t","e","s","t">>, target_audience |-> <<"d","e","v","s">>,
     tone |-> <<"c","a","s","u","a","l">>, length |-> <<"s","h","o","r","t">>,
     specific_details |-> <<"n","o","n","e">>]

TemplateLike == <<"{","t","o","n","e","}">>

\* each field empty or not; and one purpose that looks like template syntax
ApiAnswers ==
    {[k \in AnswerKeys |-> IF k \in e THEN <<>> ELSE SampleAnswers[k]] :
        e \in SUBSET AnswerKeys}
    \cup {[SampleAnswers EXCEPT !["purpose"] = TemplateLike]}

ApiPrompts ==
    {<<>>, <<"\"", "\\", "n">>, <<"a", "\n", "\t", "b">>, <<"{", "}">>}

NoAnswers == [k \in AnswerKeys |-> <<>>]

Call(op, u, p, f, ret, log, raised) ==
    [op |-> op, answers |-> u, p |-> p, f |-> f, ret |-> ret, log |-> log,
     raised |-> raised]

NoCall == Call("none", NoAnswers, <<>>, DefaultFilename, None, <<>>, "none")

InitPaths ==
    {Absent, IsDir} \cup {File(x.text) : x \in Fixtures}

MetaOf(content) ==
    IF content.kind = "file"
    THEN LET x == CHOOSE x \in Fixtures : x.text = content.text
         IN  Meta(x.cls, x.stored, FALSE, FALSE)
    ELSE Meta(content.kind, None, FALSE, FALSE)

InitShell ==
    /\ pc = "start"
    /\ args = [model |-> "gpt2", max_length |-> 200, num_return_sequences |-> 1]
    /\ generator = None
    /\ prompt = None
    /\ after = "menu"
    /\ turn = <<>>
    /\ choice = <<>>

InitAPI ==
    /\ files \in [Filenames -> InitPaths]
    /\ meta = [f \in Filenames |-> MetaOf(files[f])]
    /\ call = NoCall
    /\ InitShell

ApiGeneratePrompt ==
    /\ \E u \in ApiAnswers :
         call' = Call("generate_prompt", u, <<>>, DefaultFilename,
                      PyStr(generate_prompt(u)), <<>>, "none")
    /\ UNCHANGED <<files, meta>>
    /\ UNCHANGED shellVars

ApiSave ==
    /\ \E p \in ApiPrompts, f \in Filenames :
         \E io \in SaveIO :
           \E r \in {save_prompt(files, p, f, io)} :
           LET ok == r.raised = "none" /\ r.log = <<LogRec("INFO", "saved")>>
           IN  /\ files' = r.fs
               /\ call' = Call("save_prompt", NoAnswers, p, f, r.ret, r.log, r.raised)
               /\ meta' =
                    IF ok
                    THEN [meta EXCEPT ![f] =
                            Meta("value", PyStr(p), TRUE,
                                 /\ meta[f].cls = "value"
                                 /\ meta[f].stored.t = "str"
                                 /\ meta[f].stored # PyStr(p))]
                    ELSE IF r.fs = files THEN meta
                    ELSE [meta EXCEPT ![f] = Meta("invalid", None, FALSE, FALSE)]
    /\ UNCHANGED shellVars

ApiLoad ==
    /\ \E f \in Filenames :
         \E r \in {load_prompt(files, f)} :
            call' = Call("load_prompt", NoAnswers, <<>>, f, r.ret, r.log, r.raised)
    /\ UNCHANGED <<files, meta>>
    /\ UNCHANGED shellVars

\* something else changes what is at a path
ApiExternalWrite ==
    /\ \E f \in Filenames, c \in InitPaths :
         /\ files' = [files EXCEPT ![f] = c]
         /\ meta' = [meta EXCEPT ![f] = MetaOf(c)]
         /\ call' = Call("external", NoAnswers, <<>>, f, None, <<>>, "none")
    /\ UNCHANGED shellVars

NextAPI == ApiGeneratePrompt \/ ApiSave \/ ApiLoad \/ ApiExternalWrite

SpecAPI == InitAPI /\ [][NextAPI]_vars

----------------------------------------------------------------------------
(* The model gateway *)

ModelGpt2 == <<"g","p","t","2">>
ModelOther == <<"m">>
DefaultMaxLength == 200
DefaultNumReturnSequences == 1

\* parse_arguments: the defaults, or flags given
ArgSets ==
    {[model |-> ModelGpt2, max_length |-> DefaultMaxLength,
      num_return_sequences |-> DefaultNumReturnSequences],
     [model |-> ModelOther, max_length |-> 50, num_return_sequences |-> 2]}

\* the pipeline object
Handle(model_name) == PyVal("pipeline", model_name, <<>>)

InitOutcomes == {"none", "OSError"}

\* initialize_generator: [ret, log, raised]
initialize_generator(model_name, exc) ==
    IF exc = "none"
    THEN [ret |-> Handle(model_name),
          log |-> <<LogRec("INFO", "loading"), LogRec("INFO", "loaded")>>,
          raised |-> "none"]
    ELSE IF ExceptException(exc)
    THEN [ret |-> None,
          log |-> <<LogRec("INFO", "loading"), LogRec("ERROR", "init")>>,
          raised |-> "none"]
    ELSE [ret |-> None, log |-> <<LogRec("INFO", "loading")>>, raised |-> exc]

\* What one call of the pipeline does: it raises, or it returns a list of
\* dicts, each with or without generated_text.
GatewayOutcomes ==
    {[exc |-> "RuntimeError", items |-> <<>>]}
    \cup {[exc |-> "none", items |-> l] :
            l \in UNION {[1..n -> {"text", "nokey"}] : n \in 0..MaxResponses}}

GeneratedText == <<"g">>

\* generate_response without its try
generate_response_unguarded(outcome) ==
    IF outcome.exc = "none"
    THEN [ret |-> PyList([i \in DOMAIN outcome.items |->
                            IF outcome.items[i] = "text" THEN PyStr(GeneratedText)
                                                         ELSE PyStr(<<>>)]),
          log |-> <<>>, raised |-> "none"]
    ELSE [ret |-> None, log |-> <<>>, raised |-> outcome.exc]

\* generate_response: [ret, log, raised]; ret is None or the list of texts
generate_response(outcome) ==
    IF outcome.exc = "none"
    THEN [ret |-> PyList([i \in DOMAIN outcome.items |->
                            IF outcome.items[i] = "text" THEN PyStr(GeneratedText)
                                                         ELSE PyStr(<<>>)]),
          log |-> <<>>, raised |-> "none"]
    ELSE IF ExceptException(outcome.exc)
    THEN [ret |-> None, log |-> <<LogRec("ERROR", "generate")>>, raised |-> "none"]
    ELSE [ret |-> None, log |-> <<>>, raised |-> outcome.exc]

----------------------------------------------------------------------------
(* What happens in a turn: events, in order *)

\* ev: the kind; v: the value shown, passed or returned; what: which message,
\* log level or typed answer; name: the filename; exc: what the call raised
\* inside; h: the handle the gateway was called through
Ev(ev, v, what, name, exc, h) ==
    [ev |-> ev, v |-> v, what |-> what, name |-> name, exc |-> exc, h |-> h]
Plain(ev, v, what) == Ev(ev, v, what, <<>>, "none", None)
Show(what) == Plain("print", None, what)
LogEvents(log) == [i \in DOMAIN log |-> Plain("log", None, log[i].level)]

\* display_responses
display_responses(responses) ==
    IF Truthy(responses)
    THEN [i \in DOMAIN responses.m |-> Plain("print_response", responses.m[i], "")]
    ELSE <<Show("no_responses")>>

----------------------------------------------------------------------------
(* Console input *)

\* A line typed at the console, with what the user means by it (the model
\* computes from raw alone; means is recorded in the turn's events).
Typed(raw, means) == [raw |-> raw, means |-> means]

MenuInputs ==
    {Typed(<<"1">>, "1"), Typed(<<" ", "1", "\t">>, "1"), Typed(<<"2">>, "2"),
     Typed(<<"3">>, "3"), Typed(<<"3", " ">>, "3"), Typed(<<"9">>, "other"),
     Typed(<<>>, "other"), Typed(<<"1", "3">>, "other"),
     Typed(<<"e", "x", "i", "t">>, "other")}

YesNoInputs ==
    {Typed(<<"y","e","s">>, "yes"), Typed(<<" ","Y","E","s"," ">>, "yes"),
     Typed(<<"n","o">>, "no"), Typed(<<"y">>, "no"), Typed(<<>>, "no")}

FilenameInputs ==
    {Typed(<<>>, "blank"), Typed(<<" ", " ">>, "blank"),
     Typed(OtherFilename \o <<" ">>, "other")}

\* what the user types at the five questions; the purpose may be blank
AnswerInputs ==
    {[purpose |-> p, target_audience |-> <<"d","e","v","s"," ">>,
      tone |-> <<" ","c","a","s","u","a","l">>, length |-> <<"s","h","o","r","t">>,
      specific_details |-> <<"n","o","n","e">>] :
        p \in {<<" ","t","e","s","t">>, <<" ", " ">>}}

\* get_user_input
get_user_input(raw) == [k \in AnswerKeys |-> strip(raw[k])]

----------------------------------------------------------------------------
(* Spec: main and main_menu *)

\* what prompt.json may be when the process starts; o.json is not there
ShellInitPaths ==
    {Absent, IsDir, File(TxtNoKey), File(TxtNull), File(TxtFive),
     File(TxtEmptyPrompt), File(TxtArray)}

Init ==
    /\ files \in {[f \in Filenames |-> IF f = DefaultFilename THEN c ELSE Absent] :
                    c \in ShellInitPaths}
    /\ meta = [f \in Filenames |-> MetaOf(files[f])]
    /\ call = NoCall
    /\ pc = "start"
    /\ args \in ArgSets
    /\ generator = None
    /\ prompt = None
    /\ after = "menu"
    /\ turn = <<>>
    /\ choice = <<>>

InitFailedNever(g) == FALSE

\* "if not generator:"
InitFailed(g) == ~Truthy(g)

\* main, up to the call of main_menu
MainInit(exc) ==
    LET r == initialize_generator(args.model, exc)
    IN  /\ pc = "start"
        /\ generator' = r.ret
        /\ pc' = IF r.raised # "none" THEN "crashed"
                 ELSE IF InitFailed(r.ret) THEN "init_failed"
                 ELSE "menu"
        /\ UNCHANGED <<files, args, prompt, after, turn, choice>>
        /\ UNCHANGED apiVars

MainInitOk == MainInit("none")

MainInitFails == \E exc \in InitOutcomes \ {"none"} : MainInit(exc)

\* the menu is printed and a choice read: a new turn begins
ReadChoice(inp) ==
    /\ pc = "menu"
    /\ choice' = strip(inp.raw)
    /\ UNCHANGED <<files, args, generator>>
    /\ UNCHANGED apiVars

MenuGenerate ==
    \E inp \in MenuInputs :
        /\ ReadChoice(inp)
        /\ choice' = <<"1">>
        /\ turn' = <<Plain("menu", None, inp.means)>>
        /\ pc' = "questionnaire"
        /\ UNCHANGED <<prompt, after>>

MenuLoad ==
    \E inp \in MenuInputs :
        /\ ReadChoice(inp)
        /\ choice' = <<"2">>
        /\ turn' = <<Plain("menu", None, inp.means)>>
        /\ pc' = "load_filename"
        /\ UNCHANGED <<prompt, after>>

MenuExitStays ==
    \E inp \in MenuInputs :
        /\ ReadChoice(inp)
        /\ choice' = <<"3">>
        /\ turn' = <<Plain("menu", None, inp.means), Show("goodbye")>>
        /\ pc' = "menu"
        /\ UNCHANGED <<prompt, after>>

MenuExit ==
    \E inp \in MenuInputs :
        /\ ReadChoice(inp)
        /\ choice' = <<"3">>
        /\ turn' = <<Plain("menu", None, inp.means), Show("goodbye")>>
        /\ pc' = "exited"
        /\ UNCHANGED <<prompt, after>>

MenuInvalidExits ==
    \E inp \in MenuInputs :
        /\ ReadChoice(inp)
        /\ choice' \notin {<<"1">>, <<"2">>, <<"3">>}
        /\ turn' = <<Plain("menu", None, inp.means), Show("invalid_choice")>>
        /\ pc' = "exited"
        /\ UNCHANGED <<prompt, after>>

MenuInvalid ==
    \E inp \in MenuInputs :
        /\ ReadChoice(inp)
        /\ choice' \notin {<<"1">>, <<"2">>, <<"3">>}
        /\ turn' = <<Plain("menu", None, inp.means), Show("invalid_choice")>>
        /\ pc' = "menu"
        /\ UNCHANGED <<prompt, after>>

\* choice 1 up to the call of generate_and_display_responses
Questionnaire ==
    /\ pc = "questionnaire"
    /\ \E raw \in AnswerInputs :
         LET p == PyStr(generate_prompt(get_user_input(raw)))
         IN  /\ prompt' = p
             /\ turn' = turn \o <<Plain("build", p, ""), Plain("print_prompt", p, "")>>
    /\ after' = "ask_save"
    /\ pc' = "generate"
    /\ UNCHANGED <<files, args, generator, choice>>
    /\ UNCHANGED apiVars

\* generate_and_display_responses
GenerateAndDisplay ==
    /\ pc = "generate"
    /\ \E outcome \in GatewayOutcomes :
         LET r == generate_response(outcome)
             called == Ev("gateway", prompt, "", <<>>, outcome.exc, generator)
         IN  IF r.raised # "none"
             THEN /\ turn' = turn \o <<called>>
                  /\ pc' = "crashed"
             ELSE /\ turn' = turn \o <<called>> \o LogEvents(r.log)
                                  \o display_responses(r.ret)
                  /\ pc' = after
    /\ UNCHANGED <<files, args, generator, prompt, after, choice>>
    /\ UNCHANGED apiVars

WantsSaveExact(raw) == raw = Yes

\* input(...).strip().lower() == "yes"
WantsSave(raw) == lower(strip(raw)) = Yes

AskSave ==
    /\ pc = "ask_save"
    /\ \E inp \in YesNoInputs :
         /\ turn' = Append(turn, Plain("ask_save", None, inp.means))
         /\ pc' = IF WantsSave(inp.raw) THEN "save_filename" ELSE "menu"
    /\ UNCHANGED <<files, args, generator, prompt, after, choice>>
    /\ UNCHANGED apiVars

\* the filename is read and save_prompt called
SaveStep ==
    /\ pc = "save_filename"
    /\ \E inp \in FilenameInputs :
       \E filename \in {OrDefault(strip(inp.raw), DefaultFilename)} :
       \E doc \in {json_dump_prompt(prompt.s)} :
         \E io \in SaveIO :
           \E r \in {save_doc(files, doc, filename, io)} :
               LET called == <<Plain("ask_filename", None, inp.means),
                               Ev("save", prompt, "", filename,
                                  SaveBody(files, doc, filename, io).exc, None)>>
               IN  /\ files' = r.fs
                   /\ turn' = turn \o called \o LogEvents(r.log)
                   /\ pc' = IF r.raised # "none" THEN "crashed" ELSE "menu"
    /\ UNCHANGED <<args, generator, prompt, after, choice>>
    /\ UNCHANGED apiVars

\* "if loaded_prompt:"
LoadedOk(v) == Truthy(v)

\* choice 2 up to the call of generate_and_display_responses
LoadStep ==
    /\ pc = "load_filename"
    /\ \E inp \in FilenameInputs :
       \E filename \in {OrDefault(strip(inp.raw), DefaultFilename)} :
       \E r \in {load_prompt(files, filename)} :
       \E exc \in {IF files[filename].kind = "absent" THEN "missing"
                                ELSE LoadBody(files, filename).exc} :
         LET called == <<Plain("ask_filename", None, inp.means),
                         Ev("load", r.ret, "", filename, exc, None)>>
         IN  IF r.raised # "none"
             THEN /\ turn' = turn \o called
                  /\ pc' = "crashed"
                  /\ UNCHANGED <<prompt, after>>
             ELSE IF LoadedOk(r.ret)
             THEN /\ turn' = turn \o called \o LogEvents(r.log)
                               \o <<Plain("print_prompt", r.ret, "")>>
                  /\ prompt' = r.ret
                  /\ after' = "menu"
                  /\ pc' = "generate"
             ELSE /\ turn' = turn \o called \o LogEvents(r.log)
                               \o <<Show("load_failed")>>
                  /\ pc' = "menu"
                  /\ UNCHANGED <<prompt, after>>
    /\ UNCHANGED <<files, args, generator, choice>>
    /\ UNCHANGED apiVars

Next ==
    \/ MainInitOk
    \/ MainInitFails
    \/ MenuGenerate
    \/ MenuLoad
    \/ MenuExit
    \/ MenuInvalid
    \/ Questionnaire
    \/ GenerateAndDisplay
    \/ AskSave
    \/ SaveStep
    \/ LoadStep

Spec == Init /\ [][Next]_vars

Locations ==
    {"start", "menu", "questionnaire", "generate", "ask_save", "save_filename",
     "load_filename", "exited", "init_failed", "crashed"}

\* where the process waits for a call to return: the model load, the console
\* reads of a turn, the gateway, the file write and the file read
Blocking ==
    {"start", "questionnaire", "generate", "ask_save", "save_filename",
     "load_filename"}

\* the call the process waits for returns, and control moves on
Returns == pc \in Blocking /\ pc' \in Locations \ {pc}

\* the user types 3 at the menu
EntersThree == pc = "menu" /\ choice' = <<"3">>

\* every blocking call returns, and the user does enter 3 at some menu
FairSpec == Spec /\ WF_pc(Returns) /\ SF_choice(EntersThree)

----------------------------------------------------------------------------
(* Reading a turn *)

Idx(kind) == {i \in DOMAIN turn : turn[i].ev = kind}
IsShow(e, what) == e.ev = "print" /\ e.what = what
IsLog(e, level) == e.ev = "log" /\ e.what = level
FollowedByErrorLog(i) == i + 1 \in DOMAIN turn /\ IsLog(turn[i + 1], "ERROR")
TurnOf(means) == turn # <<>> /\ turn[1].ev = "menu" /\ turn[1].what = means
FailedGateway == {i \in Idx("gateway") : turn[i].exc # "none"}
FailedSave == {i \in Idx("save") : turn[i].exc # "none"}
FailedLoad == {i \in Idx("load") : turn[i].v = None}
ExternalCalls == Idx("gateway") \cup Idx("save") \cup Idx("load")

----------------------------------------------------------------------------
(* Claims on the functions (SpecAPI) *)

ClaimTemplate(length, target_audience, purpose, tone, specific_details) ==
    <<"W","r","i","t","e"," ","a"," ">> \o length
        \o <<" ","r","e","s","p","o","n","s","e"," ","f","o","r"," ">> \o target_audience
        \o <<" ","a","b","o","u","t"," ">> \o purpose
        \o <<"."," ","T","h","e"," ","t","o","n","e"," ","s","h","o","u","l","d"," ",
             "b","e"," ">> \o tone
        \o <<"."," ","A","d","d","i","t","i","o","n","a","l"," ","d","e","t","a","i",
             "l","s",":"," ">> \o specific_details
        \o <<".">>

SamplePromptText ==
    <<"W","r","i","t","e"," ","a"," ","s","h","o","r","t"," ","r","e","s","p","o","n",
      "s","e"," ","f","o","r"," ","d","e","v","s"," ","a","b","o","u","t"," ","t","e",
      "s","t","."," ","T","h","e"," ","t","o","n","e"," ","s","h","o","u","l","d"," ",
      "b","e"," ","c","a","s","u","a","l","."," ","A","d","d","i","t","i","o","n","a",
      "l"," ","d","e","t","a","i","l","s",":"," ","n","o","n","e",".">>

\* C1: generate_prompt returns the fixed sentence with the five answers put
\* in verbatim, empty answers included; for the sample answers of the spec
\* it is the sample sentence of the spec, letter for letter.
C1_TemplateExact ==
    call.op = "generate_prompt" =>
        /\ call.raised = "none"
        /\ call.ret = PyStr(ClaimTemplate(call.answers["length"],
                                          call.answers["target_audience"],
                                          call.answers["purpose"],
                                          call.answers["tone"],
                                          call.answers["specific_details"]))
        /\ (call.answers = SampleAnswers => call.ret.s = SamplePromptText)

C1_Witness ==
    /\ call.op = "generate_prompt"
    /\ call.answers = [SampleAnswers EXCEPT !["tone"] = <<>>]
    /\ Len(call.ret.s) = 90

\* C2: a load of a file whose last write is a successful save of this
\* program returns exactly the prompt saved, whatever the file held before.
C2_RoundTrip ==
    (call.op = "load_prompt" /\ meta[call.f].saved) =>
        /\ call.raised = "none"
        /\ call.ret = meta[call.f].stored

C2_Witness ==
    /\ call.op = "load_prompt"
    /\ meta[call.f].saved
    /\ meta[call.f].replaced
    /\ call.ret = PyStr(<<>>)

\* what is at the path is no JSON object with a prompt key
NoPromptKey(f) == meta[f].cls \in {"absent", "dir", "invalid", "nonobject", "nokey"}

\* C3 as the spec states it: load_prompt gives the null result, without
\* raising, exactly when the file is missing, is no valid JSON or has no
\* prompt key, and otherwise the string stored under prompt.
C3_AsStated ==
    call.op = "load_prompt" =>
        /\ call.raised = "none"
        /\ IF NoPromptKey(call.f) THEN call.ret = None
           ELSE call.ret.t = "str" /\ call.ret = meta[call.f].stored

\* C3, amended: load_prompt never raises; it gives the null result when the
\* file is missing, cannot be read, is no valid JSON or is no object with a
\* prompt key; otherwise it gives the value stored under prompt as it is: a
\* string (the empty one too, which is not the null result) when a string
\* is stored, and the null result when null is stored.
C3_LoadResult ==
    call.op = "load_prompt" =>
        /\ call.raised = "none"
        /\ IF NoPromptKey(call.f) THEN call.ret = None
           ELSE /\ call.ret = meta[call.f].stored
                /\ meta[call.f].stored.t = "str" => call.ret # None

C3_Witness ==
    /\ call.op = "load_prompt"
    /\ meta[call.f].cls = "value"
    /\ meta[call.f].stored = PyStr(<<>>)
    /\ call.ret = PyStr(<<>>)
    /\ call.ret # None

----------------------------------------------------------------------------
(* Claims on the menu loop (Spec, FairSpec) *)

\* a turn is over when control is back at the menu prompt, or the loop has ended
TurnOver == pc \in {"menu", "exited"}

\* C4 as the spec states it: in a Load turn, a load that gives a prompt
\* string, the empty one too, is followed by the display of that prompt and
\* exactly one gateway call with it; a load that fails is followed by an
\* error message and no gateway call; either way the menu comes back.
C4_LoadTurn ==
    (TurnOf("2") /\ TurnOver) =>
        /\ Cardinality(Idx("load")) = 1
        /\ \A i \in Idx("load") :
             IF turn[i].v.t = "str"
             THEN /\ \E j \in Idx("print_prompt") : j > i /\ turn[j].v = turn[i].v
                  /\ Cardinality(Idx("gateway")) = 1
                  /\ \A j \in Idx("gateway") : j > i /\ turn[j].v = turn[i].v
             ELSE turn[i].v = None =>
                    /\ Idx("gateway") = {}
                    /\ IsShow(turn[Len(turn)], "load_failed")

C5_Safe ==
    FailedGateway # {} =>
        /\ pc \in {"menu", "ask_save", "save_filename"}
        /\ Cardinality(Idx("gateway")) = 1
        /\ Idx("print_response") = {}
        /\ \A i \in FailedGateway :
             /\ FollowedByErrorLog(i)
             /\ i + 2 \in DOMAIN turn /\ IsShow(turn[i + 2], "no_responses")

\* C5: when the gateway call of a Generate or Load turn fails, the failure
\* is logged, "no responses" is shown and no response is, the gateway is
\* not called again in that turn, the loop goes on, and the menu prompt is
\* reached again.
C5_GatewayFailureRecovers ==
    /\ []C5_Safe
    /\ (FailedGateway # {}) ~> (pc = "menu")

C5_Witness ==
    /\ pc = "menu"
    /\ TurnOf("2")
    /\ FailedGateway # {}
    /\ IsShow(turn[Len(turn)], "no_responses")

\* C6: a menu input that is none of 1, 2, 3 once trimmed shows an error,
\* calls neither the gateway nor save nor load, leaves every file as it
\* was and brings the menu back.
C6_InvalidChoice ==
    [][(pc = "menu" /\ turn' # <<>> /\ turn'[1].ev = "menu" /\ turn'[1].what = "other") =>
          /\ pc' = "menu"
          /\ files' = files
          /\ Len(turn') = 2 /\ IsShow(turn'[2], "invalid_choice")
          /\ choice' \notin {<<"1">>, <<"2">>, <<"3">>}]_vars

C6_Witness ==
    /\ pc = "menu"
    /\ TurnOf("other")
    /\ choice = <<"9">>
    /\ ExternalCalls = {}

C7_Safe ==
    /\ pc # "crashed"
    /\ pc = "init_failed" => generator = None /\ turn = <<>>
    /\ pc \notin {"start", "init_failed"} => generator = Handle(args.model)
    /\ \A i \in Idx("gateway") : turn[i].h = Handle(args.model)

\* C7: when the model cannot be initialised the process ends there, with no
\* menu shown and no gateway, save or load call, and nothing else ends it
\* that way; when it can, the handle it gave is the one every gateway call
\* uses, and it never changes.
C7_InitFatal ==
    /\ []C7_Safe
    /\ [][pc # "init_failed" /\ (pc' = "init_failed" => pc = "start")]_vars
    /\ [][pc # "start" => generator' = generator]_vars

C7_Witness ==
    /\ pc = "init_failed"
    /\ generator = None
    /\ turn = <<>>

C8_NoCrash ==
    /\ pc # "crashed"
    /\ \A i \in FailedGateway :
         /\ FollowedByErrorLog(i)
         /\ pc \in {"menu", "ask_save", "save_filename"}
    /\ \A i \in FailedSave : FollowedByErrorLog(i) /\ pc = "menu"

\* C8 as the spec states it: no failure of a gateway call, a save or a load
\* leaves the shell; each is logged, gives a null result and control goes
\* back to the menu.
C8_AsStated ==
    /\ C8_NoCrash
    /\ \A i \in FailedLoad : FollowedByErrorLog(i) /\ pc = "menu"

\* C8, amended: no failure of a gateway call, a save or a load leaves the
\* shell, and control goes back to the menu; a gateway failure and a save
\* failure are logged; a load failure is logged when the file is missing or
\* reading or parsing it raises, it is not when the file is a JSON object
\* without a string under prompt, and in every case the shell shows its
\* "failed to load" message.
C8_FailuresHandled ==
    /\ C8_NoCrash
    /\ \A i \in FailedLoad :
         /\ pc = "menu"
         /\ IsShow(turn[Len(turn)], "load_failed")
         /\ FollowedByErrorLog(i) <=> turn[i].exc # "none"

C8_Witness ==
    /\ pc = "menu"
    /\ \E i \in FailedSave : turn[i].exc = "OSError" /\ FollowedByErrorLog(i)

GenerateOrder ==
    <<"menu", "build", "print_prompt", "gateway", "shown", "ask_save",
      "ask_filename", "save", "log">>

\* the kind of the i-th event, what the gateway step shows or logs being "shown"
KindAt(i) ==
    IF turn[i].ev \in {"print", "print_response"} THEN "shown"
    ELSE IF turn[i].ev = "log" /\ ~\E j \in Idx("ask_save") : j < i THEN "shown"
    ELSE turn[i].ev

Rank(k) == CHOOSE n \in DOMAIN GenerateOrder : GenerateOrder[n] = k

C9_Safe ==
    /\ TurnOf("1") =>
         /\ \A i \in DOMAIN turn : KindAt(i) \in {GenerateOrder[n] : n \in DOMAIN GenerateOrder}
         /\ \A i, j \in DOMAIN turn : i < j => Rank(KindAt(i)) <= Rank(KindAt(j))
         /\ \A k \in {"build", "print_prompt", "gateway", "ask_save", "save"} :
              Cardinality(Idx(k)) <= 1
         /\ \A i \in Idx("ask_save") :
              /\ Idx("build") # {} /\ Idx("print_prompt") # {} /\ Idx("gateway") # {}
              /\ \E j \in DOMAIN turn : j < i /\ KindAt(j) = "shown"
              /\ IF turn[i].what = "yes"
                 THEN pc = "save_filename" \/ Idx("save") # {}
                 ELSE pc = "menu" /\ Idx("save") = {}
         /\ \A i \in Idx("print_prompt") \cup Idx("gateway") \cup Idx("save") :
              \A j \in Idx("build") : turn[i].v = turn[j].v
         /\ \A i \in Idx("save") :
              /\ \E j \in Idx("ask_save") : j = i - 2 /\ turn[j].what = "yes"
              /\ turn[i - 1].ev = "ask_filename"
              /\ turn[i - 1].what = "blank" => turn[i].name = DefaultFilename
              /\ turn[i - 1].what = "other" => turn[i].name = OtherFilename
    /\ ~TurnOf("1") => Idx("save") = {}

\* C9: a Generate turn builds the prompt, shows it, calls the gateway once,
\* shows the outcome and asks whether to save, in that order; save_prompt
\* is called only after the answer "yes" (trimmed, any case), once, with
\* the prompt built in that turn, under prompt.json when the filename typed
\* is blank; after another answer, and in a Load or Exit turn, no file is
\* written.
C9_GenerateTurn ==
    /\ []C9_Safe
    /\ [][files' # files =>
            /\ pc = "save_filename"
            /\ TurnOf("1")
            /\ turn[Len(turn)].ev = "ask_save" /\ turn[Len(turn)].what = "yes"
            /\ \E i \in DOMAIN turn' :
                 /\ turn'[i].ev = "save"
                 /\ \A f \in Filenames \ {turn'[i].name} : files'[f] = files[f]]_vars

C9_Witness ==
    /\ pc = "menu"
    /\ TurnOf("1")
    /\ \E i \in Idx("save") :
         /\ turn[i].name = DefaultFilename
         /\ turn[i].exc = "none"
         /\ turn[i - 1].what = "blank"
         /\ files[DefaultFilename] = File(json_dump_prompt(turn[i].v.s))

\* C10: the loop ends on the menu input that is 3 once trimmed, at once and
\* with no gateway, save or load call, and on nothing else; if the user
\* does enter 3 at some menu and every call returns, the process ends.
C10_ExitOnlyOnThree ==
    /\ [][pc' = "exited" =>
            /\ pc = "menu"
            /\ turn'[1].ev = "menu" /\ turn'[1].what = "3"
            /\ choice' = <<"3">>
            /\ Len(turn') = 2 /\ IsShow(turn'[2], "goodbye")
            /\ files' = files]_vars
    /\ [][(pc = "menu" /\ turn' # <<>> /\ turn'[1].ev = "menu" /\ turn'[1].what = "3") =>
            pc' = "exited"]_vars
    /\ [][pc = "exited" => pc' = "exited"]_vars
    /\ <>(pc \in {"exited", "init_failed"})

C10_Witness ==
    /\ pc = "exited"
    /\ choice = <<"3">>
    /\ TurnOf("3")

====
